---- MODULE Spec2Model ----
(***************************************************************************)
(* The document sealing pipeline of Documenso.                             *)
(*                                                                         *)
(* Two implementations seal a document: the job handler `run`              *)
(* (jobs/definitions/internal/seal-document.handler, whose steps are       *)
(* checkpointed by io.runTask) and the plain function `sealDocument`       *)
(* (server-only/document/seal-document.ts).  Both load the document, check *)
(* the preconditions, render and sign the PDF, store the signed bytes,     *)
(* update the document in one database transaction and notify.             *)
(*                                                                         *)
(* The model keeps the persisted state (document row, DocumentData row,    *)
(* stored blobs, audit log), the external effects (signer calls, emails,   *)
(* webhooks), the task runner's result cache and the position and local    *)
(* variables of the one seal in progress.  A crash or a thrown error ends  *)
(* an execution; the job runner may execute a job handler again.           *)
(***************************************************************************)
EXTENDS Integers, Sequences, FiniteSets, TLC

\* Bounds of the model.  Scope bounds the size of a scenario: the recipients and
\* fields of the document, its settings that differ from the default, the seals
\* invoked with the arguments of each that differ from the default, and the
\* crashes and signer failures.  MaxAttempts bounds the executions of one job.
Scope == 4
MaxAttempts == 3

\* The number of pages of a rendered certificate.
CertificatePages == 2

VARIABLES
  recipients,   \* Recipient rows of the document, in the order findMany returns them
  fields,       \* Field rows of the document
  team,         \* teamGlobalSettings.includeSigningCertificate: "true", "false", "null"
  document,     \* Document row: status, completedAt, qrToken
  documentData, \* the DocumentData row the document references
  auditLog,     \* DocumentAuditLog rows, oldest first
  writes,       \* history: committed writes to document.status and documentData.data
  blobs,        \* DocumentData rows created by putPdfFileServerSide, oldest first
  emails,       \* completion emails sent
  webhooks,     \* webhooks dispatched, oldest first
  signerCalls,  \* calls of signPdf
  used,         \* how much of Scope the invocations and failures so far have used
  job,          \* the seal in progress: implementation, arguments, attempt
  tasks,        \* the task runner's durable result cache of the job
  pc,           \* position of the execution
  loc,          \* local variables of the execution
  tx,           \* the open database transaction's staged writes
  err,          \* error of the last failed execution
  pre,          \* history: the persisted state and effects when the seal was invoked
  render        \* the text or fields a rendering function is applied to, and its result

vars == <<recipients, fields, team, document, documentData, auditLog, writes, blobs,
          emails, webhooks, signerCalls, used, job, tasks, pc, loc,
          tx, err, pre, render>>

config == <<recipients, fields, team, render>>
persisted == <<document, documentData, auditLog, writes>>
effects == <<blobs, emails, webhooks, signerCalls>>

----------------------------------------------------------------------------
(* Data model *)

Roles == {"SIGNER", "CC"}
SigningStatuses == {"PENDING", "SIGNED", "REJECTED"}
Reasons == {"null", "late"}
FieldTypes == {"SIGNATURE", "FREE_SIGNATURE", "TEXT"}

RecipientRows ==
  {r \in [role : Roles, signingStatus : SigningStatuses, rejectionReason : Reasons] :
     r.signingStatus # "REJECTED" => r.rejectionReason = "null"}

FieldRows == [type : FieldTypes, inserted : BOOLEAN, required : BOOLEAN]

SeqsUpTo(S, n) == UNION {[1..k -> S] : k \in 0..n}

\* PDF bytes: how many times field overlays were drawn, the rejection stamp,
\* how many certificate pages were appended, and which signPdf call signed them.
Pristine == [layers |-> 0, stamp |-> "", cert |-> 0, sig |-> 0]

\* null of completedAt and of qrToken
Never == <<0, 0>>
NoId == <<0, 0>>

TaskNames == {"get-document-status", "get-document-data-id", "decorate-and-sign-pdf",
              "update-document", "send-completed-email"}

Range(s) == {s[i] : i \in DOMAIN s}

\* Nothing is being rendered apart from the seal in progress.
NoRender == [done |-> FALSE]

----------------------------------------------------------------------------
(* Pure helpers of both implementations *)

\* recipient.role != CC (the findMany filter)
NonCC(rs) == SelectSeq(rs, LAMBDA r : r.role # "CC")

\* Mutant: the last rejected recipient instead of the first.
FindLastRejected(rs) ==
  IF \E i \in DOMAIN rs : rs[i].signingStatus = "REJECTED"
  THEN CHOOSE i \in DOMAIN rs :
         /\ rs[i].signingStatus = "REJECTED"
         /\ \A j \in (i + 1)..Len(rs) : rs[j].signingStatus # "REJECTED"
  ELSE 0

\* recipients.find((recipient) => recipient.signingStatus === REJECTED): its index, 0 if none
FindRejected(rs) ==
  IF \E i \in DOMAIN rs : rs[i].signingStatus = "REJECTED"
  THEN CHOOSE i \in DOMAIN rs :
         /\ rs[i].signingStatus = "REJECTED"
         /\ \A j \in 1..(i - 1) : rs[j].signingStatus # "REJECTED"
  ELSE 0

rejectedRecipient == FindRejected(NonCC(recipients))

\* Mutant: rejection is looked for among all recipients, CC included.
isRejectedAnyRole == FindRejected(recipients) # 0

isRejected == rejectedRecipient # 0

\* rejectedRecipient?.rejectionReason ?? ''
rejectionReason ==
  IF rejectedRecipient = 0 THEN ""
  ELSE LET reason == NonCC(recipients)[rejectedRecipient].rejectionReason
       IN IF reason = "null" THEN "" ELSE reason

\* `run`: some(REJECTED) || every(SIGNED) over document.recipients
isComplete ==
  \/ \E i \in DOMAIN recipients : recipients[i].signingStatus = "REJECTED"
  \/ \A i \in DOMAIN recipients : recipients[i].signingStatus = "SIGNED"

\* Mutant: the check runs over all recipients, CC included.
hasUnsignedRecipientsAnyRole ==
  /\ ~isRejected
  /\ \E i \in DOMAIN recipients : recipients[i].signingStatus # "SIGNED"

\* `sealDocument`: !isRejected && recipients.some(signingStatus !== SIGNED) throws
hasUnsignedRecipients ==
  /\ ~isRejected
  /\ \E i \in DOMAIN NonCC(recipients) : NonCC(recipients)[i].signingStatus # "SIGNED"

\* utils/advanced-fields-helpers: some field is required and not inserted
fieldsContainUnsignedRequiredField(fs) ==
  \E i \in DOMAIN fs : fs[i].required /\ ~fs[i].inserted

\* utils/document: the document is in a terminal status
isDocumentCompleted(status) == status \in {"COMPLETED", "REJECTED"}

\* field.type === SIGNATURE || field.type === FREE_SIGNATURE
IsSignatureField(field) == field.type \in {"SIGNATURE", "FREE_SIGNATURE"}

\* signatureFields.length > 0
hasSignatureField == \E i \in DOMAIN fields : IsSignatureField(fields[i])

\* Mutant: an absent team setting counts as false.
includeSigningCertificateOrFalse == team = "true"

\* includeSigningCertificate ?? true
includeSigningCertificate == team # "false"

\* status: isRejected ? REJECTED : COMPLETED
SealedStatus == IF isRejected THEN "REJECTED" ELSE "COMPLETED"

\* event: isRejected ? DOCUMENT_REJECTED : DOCUMENT_COMPLETED
WebhookEvent == IF isRejected THEN "DOCUMENT_REJECTED" ELSE "DOCUMENT_COMPLETED"

\* The decorated PDF: stamp if rejected with a reason, the inserted fields drawn
\* onto the loaded bytes, the certificate pages appended when there are any.
Decorate(pdfData, certificateData) ==
  [layers |-> pdfData.layers + 1,
   stamp |-> IF isRejected /\ rejectionReason # "" THEN rejectionReason ELSE pdfData.stamp,
   cert |-> pdfData.cert
              + (IF hasSignatureField /\ certificateData THEN CertificatePages ELSE 0),
   sig |-> pdfData.sig]

----------------------------------------------------------------------------
(* State of one seal *)

NoLocals ==
  [status |-> "", qrToken |-> NoId, documentStatus |-> "", documentDataId |-> 0,
   data |-> Pristine, certificate |-> "not called", pdfBuffer |-> Pristine, newDataId |-> 0,
   newData |-> Pristine]

NoTasks == [done |-> {}, result |-> [n \in TaskNames |-> 0]]

ClosedTx == [open |-> FALSE, document |-> [status |-> "", completedAt |-> Never, qrToken |-> NoId,
                          documentDataId |-> 0],
             documentData |-> [exists |-> FALSE, data |-> Pristine, initialData |-> Pristine],
             auditLog |-> <<>>, writes |-> [status |-> 0, data |-> 0]]

Snapshot ==
  [document |-> document, documentData |-> documentData, auditLog |-> auditLog,
   writes |-> writes, blobs |-> blobs, emails |-> emails, webhooks |-> webhooks,
   signerCalls |-> signerCalls]

\* new Date(): the time of the execution that asks, later for every later execution.
Now == <<job.no, job.attempt>>

\* nanoid(), prefixedId('qr'): an id no earlier execution has drawn.
FreshId == <<job.no, job.attempt>>

\* The id of the document's own DocumentData row; blob k has id DocumentDataId + k.
DocumentDataId == 1

----------------------------------------------------------------------------
(* The task runner (io.runTask): a step whose result is in the durable cache *)
(* is skipped and its cached result returned; otherwise the callback runs    *)
(* and its result is stored when it has returned.                            *)

Cached(name) == name \in tasks.done

CachedResult(name) == tasks.result[name]

CommitTask(name, value) ==
  [done |-> tasks.done \cup {name}, result |-> [tasks.result EXCEPT ![name] = value]]

----------------------------------------------------------------------------
(* The database transaction (prisma.$transaction) *)

\* The rows as the transaction sees them when it opens.
OpenTx ==
  [open |-> TRUE, document |-> document, documentData |-> documentData,
   auditLog |-> auditLog, writes |-> writes]

\* Mutant: the writes go to the database directly, so a throw leaves them applied.
RollbackKeepsWrites(committed, staged) == staged

\* What a transaction that throws leaves in the database: its writes are rolled back.
Rollback(committed, staged) == committed

Committed ==
  [open |-> FALSE, document |-> document, documentData |-> documentData,
   auditLog |-> auditLog, writes |-> writes]

\* The rows after an execution ends by a throw or a crash at this point.
Aborted == IF tx.open THEN Rollback(Committed, tx) ELSE Committed

\* Mutant: the update also points the document at the newly stored row.
UpdateStatusRepointing(t) ==
  [t EXCEPT !.document.status = SealedStatus, !.document.completedAt = Now,
            !.document.documentDataId = loc.newDataId, !.writes.status = @ + 1]

\* tx.document.update({ status, completedAt: new Date() })
UpdateStatus(t) ==
  [t EXCEPT !.document.status = SealedStatus, !.document.completedAt = Now,
            !.writes.status = @ + 1]

\* tx.documentData.update({ where: { id: documentData.id }, data: { data } })
UpdateData(t, newData) ==
  [t EXCEPT !.documentData.data = newData, !.writes.data = @ + 1]

\* tx.documentAuditLog.create(DOCUMENT_COMPLETED, { transactionId: nanoid(), ... })
CreateAuditLog(t) ==
  [t EXCEPT !.auditLog = Append(@,
     [type |-> "DOCUMENT_COMPLETED", transactionId |-> FreshId,
      isRejected |-> isRejected,
      rejectionReason |-> IF isRejected THEN rejectionReason ELSE ""])]

----------------------------------------------------------------------------
(* Ends of an execution *)

Throw(e) ==
  /\ pc' = "failed"
  /\ loc' = NoLocals
  /\ err' = e
  /\ tx' = ClosedTx
  /\ document' = Aborted.document
  /\ documentData' = Aborted.documentData
  /\ auditLog' = Aborted.auditLog
  /\ writes' = Aborted.writes

Goto(p) == pc' = p /\ UNCHANGED err

Active == pc \notin {"idle", "done", "failed"}

Running(impl, p) == job.impl = impl /\ pc = p

----------------------------------------------------------------------------
(* Initial state: a document sent for signing, not yet sealed *)

\* The size of the document: its rows, and its settings that are not the default;
\* a field of the rarer signature type FREE_SIGNATURE counts twice.
ConfigSize ==
  Len(recipients) + Len(fields) + (IF team = "null" THEN 0 ELSE 1)
    + Cardinality({i \in DOMAIN fields : fields[i].type = "FREE_SIGNATURE"})
    + (IF documentData.exists THEN 0 ELSE 1)

\* Whether the scenario has room for an event of this cost.
Affordable(cost) == ConfigSize + used + cost <= Scope

\* The cost of an invocation: sendEmail = true and isResealing = false are the defaults.
InvokeCost(sendEmail, isResealing) ==
  1 + (IF sendEmail THEN 0 ELSE 1) + (IF isResealing THEN 1 ELSE 0)

Init ==
  /\ recipients \in SeqsUpTo(RecipientRows, Scope - 1)
  /\ fields \in SeqsUpTo(FieldRows, Scope - 1 - Len(recipients))
  /\ team \in {"true", "false", "null"}
  /\ document = [status |-> "PENDING", completedAt |-> Never, qrToken |-> NoId,
                 documentDataId |-> DocumentDataId]
  /\ documentData \in {[exists |-> e, data |-> Pristine, initialData |-> Pristine] :
                         e \in BOOLEAN}
  /\ used = 0
  /\ Affordable(1)
  /\ auditLog = <<>>
  /\ writes = [status |-> 0, data |-> 0]
  /\ blobs = <<>>
  /\ emails = 0
  /\ webhooks = <<>>
  /\ signerCalls = 0
  /\ job = [no |-> 0, impl |-> "none", sendEmail |-> FALSE, isResealing |-> FALSE,
            attempt |-> 0, commits |-> 0]
  /\ tasks = NoTasks
  /\ pc = "idle"
  /\ loc = NoLocals
  /\ tx = ClosedTx
  /\ err = "none"
  /\ pre = Snapshot
  /\ render = NoRender

----------------------------------------------------------------------------
(* Invocation, failure and re-execution *)

\* A caller invokes `sealDocument`, or the job runner starts a new seal job.
Invoke(impl, sendEmail, isResealing) ==
  /\ ~Active
  /\ Affordable(InvokeCost(sendEmail, isResealing))
  /\ used' = used + InvokeCost(sendEmail, isResealing)
  /\ job' = [no |-> job.no + 1, impl |-> impl, sendEmail |-> sendEmail,
             isResealing |-> isResealing, attempt |-> 1, commits |-> 0]
  /\ tasks' = NoTasks
  /\ loc' = NoLocals
  /\ pre' = Snapshot
  /\ pc' = "load"
  /\ err' = "none"
  /\ UNCHANGED <<config, persisted, effects, tx>>

\* An execution ends abnormally at any point: the process dies, or a collaborator
\* (database, storage, email, webhook) throws.  An open transaction never commits.
Crash ==
  /\ Active
  /\ Affordable(1)
  /\ used' = used + 1
  /\ Throw(IF tx.open THEN "transaction failed" ELSE "crash")
  /\ UNCHANGED <<config, effects, job, tasks, pre>>

\* The job runner executes the job handler again; the task cache is kept.
Retry ==
  /\ pc = "failed"
  /\ job.impl = "run"
  /\ job.attempt < MaxAttempts
  /\ job' = [job EXCEPT !.attempt = @ + 1]
  /\ loc' = NoLocals
  /\ pc' = "load"
  /\ err' = "none"
  /\ UNCHANGED <<config, persisted, effects, used, tasks, tx, pre>>

----------------------------------------------------------------------------
(* The job handler `run` *)

\* Mutant: the QR token is assigned as soon as the document is loaded.
RunLoadDocumentQrFirst ==
  /\ Running("run", "load")
  /\ document' = IF document.qrToken = NoId
                 THEN [document EXCEPT !.qrToken = FreshId] ELSE document
  /\ IF isComplete
     THEN /\ loc' = [loc EXCEPT !.status = document.status,
                                !.qrToken = document'.qrToken]
          /\ Goto("get-document-status")
     ELSE /\ pc' = "failed"
          /\ loc' = NoLocals
          /\ err' = "Document is not complete"
  /\ UNCHANGED <<config, documentData, auditLog, writes, effects, used, job, tasks, tx,
                 pre>>

\* findFirstOrThrow(document with recipients), then the isComplete check
RunLoadDocument ==
  /\ Running("run", "load")
  /\ IF isComplete
     THEN /\ loc' = [loc EXCEPT !.status = document.status,
                                !.qrToken = document.qrToken]
          /\ Goto("get-document-status")
          /\ UNCHANGED <<persisted, tx>>
     ELSE Throw("Document is not complete")
  /\ UNCHANGED <<config, effects, used, job, tasks, pre>>

\* io.runTask('get-document-status', () => document.status)
RunGetDocumentStatus ==
  /\ Running("run", "get-document-status")
  /\ IF Cached("get-document-status")
     THEN /\ loc' = [loc EXCEPT !.documentStatus = CachedResult("get-document-status")]
          /\ UNCHANGED tasks
     ELSE /\ loc' = [loc EXCEPT !.documentStatus = loc.status]
          /\ tasks' = CommitTask("get-document-status", loc.status)
  /\ Goto("get-document-data-id")
  /\ UNCHANGED <<config, persisted, effects, used, job, tx, pre>>

\* io.runTask('get-document-data-id', () => document.documentDataId)
RunGetDocumentDataId ==
  /\ Running("run", "get-document-data-id")
  /\ IF Cached("get-document-data-id")
     THEN /\ loc' = [loc EXCEPT !.documentDataId = CachedResult("get-document-data-id")]
          /\ UNCHANGED tasks
     ELSE /\ loc' = [loc EXCEPT !.documentDataId = document.documentDataId]
          /\ tasks' = CommitTask("get-document-data-id", document.documentDataId)
  /\ Goto("find-document-data")
  /\ UNCHANGED <<config, persisted, effects, used, job, tx, pre>>

\* prisma.documentData.findFirst({ id: documentDataId }), throw if there is none
RunFindDocumentData ==
  /\ Running("run", "find-document-data")
  /\ IF documentData.exists /\ loc.documentDataId = DocumentDataId
     THEN /\ loc' = [loc EXCEPT !.data = documentData.data]
          /\ Goto("check-fields")
          /\ UNCHANGED <<persisted, tx>>
     ELSE Throw("has no document data")
  /\ UNCHANGED <<config, effects, used, job, tasks, pre>>

\* Mutant: a reseal keeps the current data as its source.
WorkingDataCurrent(isResealing, initialData, data) == data

\* if (isResealing) documentData.data = documentData.initialData
WorkingData(isResealing, initialData, data) == IF isResealing THEN initialData ELSE data

\* Mutant: the required-field check is applied to a rejected document too.
unsignedRequiredFieldsAlways == fieldsContainUnsignedRequiredField(fields)

\* !isRejected && fieldsContainUnsignedRequiredField(fields)
unsignedRequiredFields == ~isRejected /\ fieldsContainUnsignedRequiredField(fields)

\* recipients and fields are loaded, the required-field check, the reseal rebinding
RunCheckFields ==
  /\ Running("run", "check-fields")
  /\ IF unsignedRequiredFields
     THEN Throw("has unsigned required fields")
     ELSE /\ loc' = [loc EXCEPT
                       !.data = WorkingData(job.isResealing, documentData.initialData, @)]
          /\ Goto("qr-token")
          /\ UNCHANGED <<persisted, tx>>
  /\ UNCHANGED <<config, effects, used, job, tasks, pre>>

\* if (!document.qrToken) prisma.document.update({ qrToken: prefixedId('qr') })
RunAssignQrToken ==
  /\ Running("run", "qr-token")
  /\ IF loc.qrToken = NoId
     THEN document' = [document EXCEPT !.qrToken = FreshId]
     ELSE UNCHANGED document
  /\ Goto("get-file")
  /\ UNCHANGED <<config, documentData, auditLog, writes, effects, used, job,
                 tasks, loc, tx, pre>>

\* getCertificatePdf(...).catch(() => null): the renderer is called only with a
\* signature field and the team setting; it returns a PDF or throws
CertificateOutcomes ==
  IF hasSignatureField /\ includeSigningCertificate THEN {"pdf", "threw"} ELSE {"not called"}

\* certificateData: the rendered PDF, or null
CertificateData(outcome) == outcome = "pdf"

\* getFileServerSide(documentData), then the certificate
RunGetFile ==
  /\ Running("run", "get-file")
  /\ \E outcome \in CertificateOutcomes : loc' = [loc EXCEPT !.certificate = outcome]
  /\ Goto("decorate-and-sign-pdf")
  /\ UNCHANGED <<config, persisted, effects, used, job, tasks, tx, pre>>

\* The id putPdfFileServerSide gives the next DocumentData row it creates.
NextBlobId == DocumentDataId + Len(blobs) + 1

\* The `data` of the stored DocumentData row with this id.
BlobData(id) == blobs[id - DocumentDataId]

\* Mutant: the step is not wrapped in io.runTask, its body runs in every execution.
RunDecorateAndSignUncached ==
  /\ Running("run", "decorate-and-sign-pdf")
  /\ signerCalls' = signerCalls + 1
  /\ loc' = [loc EXCEPT !.pdfBuffer =
               [Decorate(loc.data, CertificateData(loc.certificate)) EXCEPT !.sig = signerCalls + 1]]
  /\ Goto("put-pdf")
  /\ UNCHANGED <<config, persisted, blobs, emails, webhooks, used, job, tasks, tx, pre>>

\* io.runTask('decorate-and-sign-pdf'): skipped when cached; otherwise the PDF is
\* loaded, normalized, stamped, drawn on and saved, and signPdf signs it or throws
RunDecorateAndSign ==
  /\ Running("run", "decorate-and-sign-pdf")
  /\ IF Cached("decorate-and-sign-pdf")
     THEN /\ loc' = [loc EXCEPT !.newDataId = CachedResult("decorate-and-sign-pdf")]
          /\ Goto("capture")
          /\ UNCHANGED <<persisted, tx, signerCalls, used>>
     ELSE /\ signerCalls' = signerCalls + 1
          /\ \/ /\ loc' = [loc EXCEPT !.pdfBuffer =
                             [Decorate(loc.data, CertificateData(loc.certificate))
                                EXCEPT !.sig = signerCalls + 1]]
                /\ Goto("put-pdf")
                /\ UNCHANGED <<persisted, tx, used>>
             \/ /\ Affordable(1)
                /\ used' = used + 1
                /\ Throw("signPdf failed")
  /\ UNCHANGED <<config, blobs, emails, webhooks, job, tasks, pre>>

\* putPdfFileServerSide({ name, type, arrayBuffer }) creates a DocumentData row
RunPutPdf ==
  /\ Running("run", "put-pdf")
  /\ blobs' = Append(blobs, loc.pdfBuffer)
  /\ loc' = [loc EXCEPT !.newDataId = NextBlobId]
  /\ Goto("commit-decorate-and-sign-pdf")
  /\ UNCHANGED <<config, persisted, emails, webhooks, signerCalls, used,
                 job, tasks, tx, pre>>

\* the callback has returned documentData.id: the task runner stores the result
RunCommitDecorateAndSign ==
  /\ Running("run", "commit-decorate-and-sign-pdf")
  /\ tasks' = CommitTask("decorate-and-sign-pdf", loc.newDataId)
  /\ Goto("capture")
  /\ UNCHANGED <<config, persisted, effects, used, job, loc, tx, pre>>

\* postHog.capture({ event: 'App: Document Sealed' }): called outside any task and
\* outside any try, so what it throws ends the execution
RunCapture ==
  /\ Running("run", "capture")
  /\ \/ /\ Goto("update-document")
        /\ UNCHANGED <<persisted, used, loc, tx>>
     \/ /\ Affordable(1)
        /\ used' = used + 1
        /\ Throw("postHog.capture failed")
  /\ UNCHANGED <<config, effects, job, tasks, pre>>

\* tx.documentData.findFirstOrThrow({ where: { id: newDataId } })
RunNewData == BlobData(loc.newDataId)

\* io.runTask('update-document'): skipped when cached; otherwise the transaction
\* opens and reads the stored row
RunUpdateDocument ==
  /\ Running("run", "update-document")
  /\ IF Cached("update-document")
     THEN /\ Goto("send-completed-email")
          /\ UNCHANGED <<tx, loc>>
     ELSE /\ tx' = OpenTx
          /\ loc' = [loc EXCEPT !.newData = RunNewData]
          /\ Goto("tx-document-update")
  /\ UNCHANGED <<config, persisted, effects, used, job, tasks, pre>>

\* tx.document.update({ status, completedAt })
RunTxDocumentUpdate ==
  /\ Running("run", "tx-document-update")
  /\ tx' = UpdateStatus(tx)
  /\ Goto("tx-document-data-update")
  /\ UNCHANGED <<config, persisted, effects, used, job, tasks, loc, pre>>

\* tx.documentData.update({ where: { id: documentData.id }, data: { data: newData.data } })
RunTxDocumentDataUpdate ==
  /\ Running("run", "tx-document-data-update")
  /\ tx' = UpdateData(tx, loc.newData)
  /\ Goto("tx-audit-log-create")
  /\ UNCHANGED <<config, persisted, effects, used, job, tasks, loc, pre>>

\* tx.documentAuditLog.create(...), after which the transaction commits
RunTxAuditLogCreate ==
  /\ Running("run", "tx-audit-log-create")
  /\ LET t == CreateAuditLog(tx)
     IN /\ document' = t.document
        /\ documentData' = t.documentData
        /\ auditLog' = t.auditLog
        /\ writes' = t.writes
  /\ tx' = ClosedTx
  /\ job' = [job EXCEPT !.commits = @ + 1]
  /\ Goto("commit-update-document")
  /\ UNCHANGED <<config, effects, used, tasks, loc, pre>>

\* the callback has returned: the task runner stores that update-document is done
RunCommitUpdateDocument ==
  /\ Running("run", "commit-update-document")
  /\ tasks' = CommitTask("update-document", 0)
  /\ Goto("send-completed-email")
  /\ UNCHANGED <<config, persisted, effects, used, job, loc, tx, pre>>

\* shouldSendCompletedEmail of `run`, decided on the document as loaded by this execution
RunShouldSendCompletedEmail ==
  IF job.isResealing /\ ~isDocumentCompleted(loc.status)
  THEN job.sendEmail
  ELSE job.sendEmail /\ ~job.isResealing /\ ~isRejected

\* io.runTask('send-completed-email'): skipped when cached; otherwise the email is
\* sent if it is due, and the task runner stores that the step is done
RunSendCompletedEmail ==
  /\ Running("run", "send-completed-email")
  /\ IF Cached("send-completed-email")
     THEN /\ Goto("trigger-webhook")
          /\ UNCHANGED <<persisted, emails, used, loc, tx>>
     ELSE IF RunShouldSendCompletedEmail
     THEN \/ /\ emails' = emails + 1
             /\ Goto("commit-send-completed-email")
             /\ UNCHANGED <<persisted, used, loc, tx>>
          \/ /\ Affordable(1)
             /\ used' = used + 1
             /\ Throw("sendCompletedEmail failed")
             /\ UNCHANGED emails
     ELSE /\ Goto("commit-send-completed-email")
          /\ UNCHANGED <<persisted, emails, used, loc, tx>>
  /\ UNCHANGED <<config, blobs, webhooks, signerCalls, job, tasks, pre>>

RunCommitSendCompletedEmail ==
  /\ Running("run", "commit-send-completed-email")
  /\ tasks' = CommitTask("send-completed-email", 0)
  /\ Goto("trigger-webhook")
  /\ UNCHANGED <<config, persisted, effects, used, job, loc, tx, pre>>

\* the document is loaded again and triggerWebhook is called with its payload; the
\* handler then returns, or the execution dies before the job runner has recorded
\* that it returned
RunTriggerWebhook ==
  /\ Running("run", "trigger-webhook")
  /\ webhooks' = Append(webhooks, [event |-> WebhookEvent, status |-> document.status])
  /\ \/ /\ Goto("done")
        /\ UNCHANGED <<used, loc>>
     \/ /\ Affordable(1)
        /\ used' = used + 1
        /\ pc' = "failed"
        /\ loc' = NoLocals
        /\ err' = "crash"
  /\ UNCHANGED <<config, persisted, blobs, emails, signerCalls, job, tasks, tx, pre>>

----------------------------------------------------------------------------
(* The function `sealDocument` *)

\* findFirstOrThrow(document with documentData and recipients), throw without data
SealLoadDocument ==
  /\ Running("sealDocument", "load")
  /\ IF documentData.exists
     THEN /\ loc' = [loc EXCEPT !.status = document.status, !.qrToken = document.qrToken,
                                !.data = documentData.data]
          /\ Goto("check-recipients")
          /\ UNCHANGED <<persisted, tx>>
     ELSE Throw("has no document data")
  /\ UNCHANGED <<config, effects, used, job, tasks, pre>>

\* the non-CC recipients are loaded; unless rejected, all of them must have signed
SealCheckRecipients ==
  /\ Running("sealDocument", "check-recipients")
  /\ IF hasUnsignedRecipients
     THEN Throw("has unsigned recipients")
     ELSE Goto("check-fields") /\ UNCHANGED <<persisted, tx, loc>>
  /\ UNCHANGED <<config, effects, used, job, tasks, pre>>

\* the fields are loaded, the required-field check, the reseal rebinding
SealCheckFields ==
  /\ Running("sealDocument", "check-fields")
  /\ IF unsignedRequiredFields
     THEN Throw("has unsigned required fields")
     ELSE /\ loc' = [loc EXCEPT
                       !.data = WorkingData(job.isResealing, documentData.initialData, @)]
          /\ Goto("get-file")
          /\ UNCHANGED <<persisted, tx>>
  /\ UNCHANGED <<config, effects, used, job, tasks, pre>>

\* Mutant: the failure of the certificate renderer is not caught.
SealGetFileUncaught ==
  /\ Running("sealDocument", "get-file")
  /\ \E outcome \in CertificateOutcomes :
       IF outcome = "threw"
       THEN Throw("getCertificatePdf failed")
       ELSE /\ loc' = [loc EXCEPT !.certificate = outcome]
            /\ Goto("decorate-and-sign-pdf")
            /\ UNCHANGED <<persisted, tx>>
  /\ UNCHANGED <<config, effects, used, job, tasks, pre>>

\* getFileServerSide(documentData), then the certificate
SealGetFile ==
  /\ Running("sealDocument", "get-file")
  /\ \E outcome \in CertificateOutcomes : loc' = [loc EXCEPT !.certificate = outcome]
  /\ Goto("decorate-and-sign-pdf")
  /\ UNCHANGED <<config, persisted, effects, used, job, tasks, tx, pre>>

\* the PDF is loaded, normalized, stamped, drawn on and saved; signPdf signs it or throws
SealDecorateAndSign ==
  /\ Running("sealDocument", "decorate-and-sign-pdf")
  /\ signerCalls' = signerCalls + 1
  /\ \/ /\ loc' = [loc EXCEPT !.pdfBuffer =
                     [Decorate(loc.data, CertificateData(loc.certificate)) EXCEPT !.sig = signerCalls + 1]]
        /\ Goto("put-pdf")
        /\ UNCHANGED <<persisted, tx, used>>
     \/ /\ Affordable(1)
        /\ used' = used + 1
        /\ Throw("signPdf failed")
  /\ UNCHANGED <<config, blobs, emails, webhooks, job, tasks, pre>>

\* Mutant: the signed bytes are stored by overwriting the document's own row.
SealPutPdfInPlace ==
  /\ Running("sealDocument", "put-pdf")
  /\ blobs' = Append(blobs, loc.pdfBuffer)
  /\ documentData' = [documentData EXCEPT !.data = loc.pdfBuffer]
  /\ loc' = [loc EXCEPT !.newDataId = NextBlobId, !.newData = loc.pdfBuffer]
  /\ Goto("capture")
  /\ UNCHANGED <<config, document, auditLog, writes, emails, webhooks, signerCalls, used,
                 job, tasks, tx, pre>>

\* const { data: newData } = await putPdfFileServerSide(...)
SealPutPdf ==
  /\ Running("sealDocument", "put-pdf")
  /\ blobs' = Append(blobs, loc.pdfBuffer)
  /\ loc' = [loc EXCEPT !.newDataId = NextBlobId, !.newData = loc.pdfBuffer]
  /\ Goto("capture")
  /\ UNCHANGED <<config, persisted, emails, webhooks, signerCalls, used,
                 job, tasks, tx, pre>>

\* postHog.capture({ event: 'App: Document Sealed' }): called outside any try, so
\* what it throws reaches the caller of sealDocument
SealCapture ==
  /\ Running("sealDocument", "capture")
  /\ \/ /\ Goto("update-document")
        /\ UNCHANGED <<persisted, used, loc, tx>>
     \/ /\ Affordable(1)
        /\ used' = used + 1
        /\ Throw("postHog.capture failed")
  /\ UNCHANGED <<config, effects, job, tasks, pre>>

\* prisma.$transaction opens; tx.document.update({ status, completedAt })
SealTxDocumentUpdate ==
  /\ Running("sealDocument", "update-document")
  /\ tx' = UpdateStatus(OpenTx)
  /\ Goto("tx-document-data-update")
  /\ UNCHANGED <<config, persisted, effects, used, job, tasks, loc, pre>>

\* tx.documentData.update({ where: { id: documentData.id }, data: { data: newData } })
SealTxDocumentDataUpdate ==
  /\ Running("sealDocument", "tx-document-data-update")
  /\ tx' = UpdateData(tx, loc.newData)
  /\ Goto("tx-audit-log-create")
  /\ UNCHANGED <<config, persisted, effects, used, job, tasks, loc, pre>>

\* tx.documentAuditLog.create(...), after which the transaction commits
SealTxAuditLogCreate ==
  /\ Running("sealDocument", "tx-audit-log-create")
  /\ LET t == CreateAuditLog(tx)
     IN /\ document' = t.document
        /\ documentData' = t.documentData
        /\ auditLog' = t.auditLog
        /\ writes' = t.writes
  /\ tx' = ClosedTx
  /\ job' = [job EXCEPT !.commits = @ + 1]
  /\ Goto("send-completed-email")
  /\ UNCHANGED <<config, effects, used, tasks, loc, pre>>

\* if (sendEmail && !isResealing) sendCompletedEmail(...)
SealShouldSendCompletedEmail == job.sendEmail /\ ~job.isResealing

\* sendCompletedEmail sends the email or throws
SealSendCompletedEmail ==
  /\ Running("sealDocument", "send-completed-email")
  /\ IF SealShouldSendCompletedEmail
     THEN \/ /\ emails' = emails + 1
             /\ Goto("trigger-webhook")
             /\ UNCHANGED <<persisted, used, loc, tx>>
          \/ /\ Affordable(1)
             /\ used' = used + 1
             /\ Throw("sendCompletedEmail failed")
             /\ UNCHANGED emails
     ELSE /\ Goto("trigger-webhook")
          /\ UNCHANGED <<persisted, emails, used, loc, tx>>
  /\ UNCHANGED <<config, blobs, webhooks, signerCalls, job, tasks, pre>>

\* the document is loaded again and triggerWebhook is called with its payload
SealTriggerWebhook ==
  /\ Running("sealDocument", "trigger-webhook")
  /\ webhooks' = Append(webhooks, [event |-> WebhookEvent, status |-> document.status])
  /\ Goto("done")
  /\ UNCHANGED <<config, persisted, blobs, emails, signerCalls, used,
                 job, tasks, loc, tx, pre>>

----------------------------------------------------------------------------
(* Text wrapping: breakLongString, defined alike in `run` and `sealDocument` *)

\* Bounds of the texts and widths breakLongString is applied to.
MaxLen == 5
MaxWidth == 3

\* A text is a sequence of characters: a narrow and a wide letter, space, newline.
Chars == {"a", "W", " ", "\n"}

\* The width the font gives a character at the font size.
CharWidth(c) == IF c = "W" THEN 2 ELSE 1

\* font.widthOfTextAtSize(text, fontSize): the sum of the widths of the characters
RECURSIVE WidthOfText(_)
WidthOfText(text) ==
  IF text = <<>> THEN 0 ELSE CharWidth(Head(text)) + WidthOfText(Tail(text))

\* text.split(sep): the pieces between the separators, one piece if there is none
RECURSIVE Split(_, _)
Split(text, sep) ==
  IF \E i \in DOMAIN text : text[i] = sep
  THEN LET i == CHOOSE i \in DOMAIN text :
                  text[i] = sep /\ \A j \in 1..(i - 1) : text[j] # sep
       IN <<SubSeq(text, 1, i - 1)>> \o Split(SubSeq(text, i + 1, Len(text)), sep)
  ELSE <<text>>

\* lines.join(sep)
RECURSIVE Join(_, _)
Join(lines, sep) ==
  IF lines = <<>> THEN <<>>
  ELSE IF Len(lines) = 1 THEN lines[1]
  ELSE lines[1] \o <<sep>> \o Join(Tail(lines), sep)

\* Mutant: the character that does not fit the run is left out.
RECURSIVE BreakWordDropping(_, _, _)
BreakWordDropping(chars, st, maxWidth) ==
  IF chars = <<>> THEN st
  ELSE LET char == Head(chars)
           nextCharLine == Append(st.charLine, char)
       IN BreakWordDropping(Tail(chars),
                            IF WidthOfText(nextCharLine) <= maxWidth
                            THEN [st EXCEPT !.charLine = nextCharLine]
                            ELSE [lines |-> Append(st.lines, st.charLine), charLine |-> <<>>],
                            maxWidth)

\* Mutant: a word too long for a line is not broken.
BreakWordWhole(chars, st, maxWidth) == [lines |-> st.lines, charLine |-> chars]

\* for (const char of word): the word is broken character by character
RECURSIVE BreakWord(_, _, _)
BreakWord(chars, st, maxWidth) ==
  IF chars = <<>> THEN st
  ELSE LET char == Head(chars)
           nextCharLine == Append(st.charLine, char)
       IN BreakWord(Tail(chars),
                    IF WidthOfText(nextCharLine) <= maxWidth
                    THEN [st EXCEPT !.charLine = nextCharLine]
                    ELSE [lines |-> Append(st.lines, st.charLine), charLine |-> <<char>>],
                    maxWidth)

\* Mutant: a word is put on the current line only when that line is empty.
RECURSIVE BreakWordsOnePerLine(_, _, _)
BreakWordsOnePerLine(words, st, maxWidth) ==
  IF words = <<>> THEN st
  ELSE LET word == Head(words)
           saved == IF Len(st.currentLine) > 0 THEN Append(st.lines, st.currentLine)
                    ELSE st.lines
           broken == BreakWord(word, [lines |-> saved, charLine |-> <<>>], maxWidth)
       IN BreakWordsOnePerLine(Tail(words),
                               IF Len(st.currentLine) = 0 /\ WidthOfText(word) <= maxWidth
                               THEN [st EXCEPT !.currentLine = word]
                               ELSE IF WidthOfText(word) <= maxWidth
                               THEN [lines |-> saved, currentLine |-> word]
                               ELSE [lines |-> broken.lines, currentLine |-> broken.charLine],
                               maxWidth)

\* for (const word of words): the words are packed into lines
RECURSIVE BreakWords(_, _, _)
BreakWords(words, st, maxWidth) ==
  IF words = <<>> THEN st
  ELSE LET word == Head(words)
           lineWithWord == IF Len(st.currentLine) = 0 THEN word
                           ELSE st.currentLine \o <<" ">> \o word
           saved == IF Len(st.currentLine) > 0 THEN Append(st.lines, st.currentLine)
                    ELSE st.lines
           broken == BreakWord(word, [lines |-> saved, charLine |-> <<>>], maxWidth)
       IN BreakWords(Tail(words),
                     IF WidthOfText(lineWithWord) <= maxWidth
                     THEN [st EXCEPT !.currentLine = lineWithWord]
                     ELSE IF WidthOfText(word) <= maxWidth
                     THEN [lines |-> saved, currentLine |-> word]
                     ELSE [lines |-> broken.lines, currentLine |-> broken.charLine],
                     maxWidth)

\* the body of for (const paragraph of text.split('\n'))
BreakParagraph(lines, paragraph, maxWidth) ==
  IF paragraph = <<>> \/ WidthOfText(paragraph) <= maxWidth
  THEN Append(lines, paragraph)
  ELSE LET st == BreakWords(Split(paragraph, " "),
                            [lines |-> lines, currentLine |-> <<>>], maxWidth)
       IN IF Len(st.currentLine) > 0 THEN Append(st.lines, st.currentLine) ELSE st.lines

RECURSIVE BreakParagraphs(_, _, _)
BreakParagraphs(paragraphs, lines, maxWidth) ==
  IF paragraphs = <<>> THEN lines
  ELSE BreakParagraphs(Tail(paragraphs),
                       BreakParagraph(lines, Head(paragraphs), maxWidth), maxWidth)

\* breakLongString(text, maxWidth, font, fontSize)
breakLongString(text, maxWidth) ==
  IF text = <<>> THEN <<>>
  ELSE Join(BreakParagraphs(Split(text, "\n"), <<>>, maxWidth), "\n")

\* A text and a width that breakLongString is about to be called with.  The
\* available width is the field's width less the padding, and can be negative.
WrapInputs ==
  {[text |-> t, maxWidth |-> w, wrappedText |-> <<>>, done |-> FALSE] :
     t \in SeqsUpTo(Chars, MaxLen), w \in -1..MaxWidth}

\* const wrappedText = breakLongString(field.customText, availableWidth, font, fontSize)
Wrap ==
  /\ ~render.done
  /\ render' = [render EXCEPT !.wrappedText = breakLongString(render.text, render.maxWidth),
                              !.done = TRUE]
  /\ UNCHANGED <<recipients, fields, team, persisted, effects, used, job, tasks, pc, loc,
                 tx, err, pre>>

----------------------------------------------------------------------------
(* Field drawing: the decorate step of the three implementations, `run`       *)
(* (src/unnamed/part_000), `run` of seal-document.handler.ts ("handler") and  *)
(* `sealDocument`.  Here the PDF bytes are the number of pages and the marks  *)
(* drawn on them; coordinates are in tenths of a point, so that the line      *)
(* height 8 * 1.2 is a whole number.                                          *)

\* Bounds of the documents that are decorated.
MaxTextFields == 1
MaxSignatureFields == 1
MaxSeals == 2
MaxPage == 2

DrawImpls == {"run", "handler", "sealDocument"}

\* page.getWidth(), page.getHeight(), in points
PageWidth == 200
PageHeight == 200

\* const fontSize = 8; const padding = 4
FontSize == 8
Padding == 4

Tenths(x) == 10 * x

\* const lineHeight = fontSize * 1.2, in tenths of a point
LineHeight == FontSize * 12

\* A text that does not fit the available width of a field, and the field boxes:
\* position and size in percent of the page.  Three lines fit the tall box and one
\* fits the short box; in the edge box the first baseline is exactly the lowest
\* one allowed, and no line fits the flat box.
LongText == <<"a", "a", " ", "a">>
TallBox == [positionX |-> 10, positionY |-> 10, width |-> 5, height |-> 20]
ShortBox == [positionX |-> 10, positionY |-> 10, width |-> 5, height |-> 11]
EdgeBox == [positionX |-> 20, positionY |-> 30, width |-> 5, height |-> 8]
FlatBox == [positionX |-> 20, positionY |-> 30, width |-> 5, height |-> 7]

FieldRow(type, inserted, customText, page, box) ==
  [type |-> type, inserted |-> inserted, customText |-> customText, page |-> page,
   positionX |-> box.positionX, positionY |-> box.positionY,
   width |-> box.width, height |-> box.height]

\* The rows of the non-signature fields: an inserted field with a long text in a
\* tall box on page 1, and the rows that differ from it in one column.
TextFieldRows ==
  {FieldRow("TEXT", TRUE, LongText, p, TallBox) : p \in 0..MaxPage}
    \cup {FieldRow("TEXT", FALSE, LongText, 1, TallBox),
          FieldRow("TEXT", TRUE, <<>>, 1, TallBox)}
    \cup {FieldRow("TEXT", TRUE, LongText, 1, box) : box \in {ShortBox, EdgeBox, FlatBox}}

\* The rows of the signature fields: inserted or not.  Where a signature field is
\* drawn is decided inside insertFieldInPDF, from the row it is handed.
SignatureFieldRows == {FieldRow("SIGNATURE", i, <<>>, 1, TallBox) : i \in BOOLEAN}

\* The document as uploaded: one page, nothing drawn.
BlankPdf == [pages |-> 1, content |-> <<>>]

\* One operation on the working document.
Op(name) ==
  [op |-> name, field |-> 0, page |-> 0, text |-> <<>>, x |-> 0, y |-> 0, reason |-> "",
   pages |-> 0]

\* pages.at(field.page - 1): the number of the page it gives, 0 when undefined
PageAt(pageCount, page) ==
  LET index == page - 1
      at == IF index < 0 THEN index + pageCount ELSE index
  IN IF at >= 0 /\ at < pageCount THEN at + 1 ELSE 0

\* total * (Number(percent) / 100)
Percent(total, percent) == (total * percent) \div 100

\* Mutant: every line is drawn, whatever vertical space is left.
DrawLinesAll(lines, currentY, minY, base) ==
  [j \in 1..Len(lines) |->
     [base EXCEPT !.text = lines[j], !.y = currentY - (LineHeight * (j - 1))]]

\* for (const line of lines): a line is drawn unless vertical space has run out
RECURSIVE DrawLines(_, _, _, _)
DrawLines(lines, currentY, minY, base) ==
  IF lines = <<>> \/ currentY < minY THEN <<>>
  ELSE <<[base EXCEPT !.text = Head(lines), !.y = currentY]>>
         \o DrawLines(Tail(lines), currentY - LineHeight, minY, base)

\* The body of for (const field of nonSignatureFields), of each implementation.
DrawTextField(impl, k, field, pageCount) ==
  LET page == PageAt(pageCount, field.page)
      fieldWidth == Percent(PageWidth, field.width)
      fieldHeight == Percent(PageHeight, field.height)
      fieldX == Percent(PageWidth, field.positionX)
      fieldY == Percent(PageHeight, field.positionY)
      invertedY == PageHeight - fieldY - fieldHeight
      base == [Op("drawText") EXCEPT !.field = k, !.page = page]
  IN IF impl # "sealDocument" /\ ~field.inserted THEN <<>>
     ELSE IF page = 0 THEN <<>>
     ELSE IF field.customText = <<>> THEN <<>>
     ELSE IF impl = "handler"
     THEN <<[base EXCEPT !.text = field.customText,
                         !.x = Tenths(fieldX + 2),
                         !.y = Tenths(invertedY) + (Tenths(fieldHeight) \div 2)
                                 - (Tenths(FontSize) \div 2)]>>
     ELSE DrawLines(Split(breakLongString(field.customText, fieldWidth - (Padding * 2)), "\n"),
                    Tenths(invertedY + fieldHeight - Padding - FontSize),
                    Tenths(invertedY + Padding),
                    [base EXCEPT !.x = Tenths(fieldX + Padding)])

\* The body of for (const field of signatureFields): the field is handed to
\* insertFieldInPDF or legacy_insertFieldInPDF with the pages the document then has.
InsertSignatureField(impl, k, field, pageCount) ==
  IF impl = "sealDocument" \/ field.inserted
  THEN <<[Op("insertFieldInPDF") EXCEPT !.field = k, !.pages = pageCount]>>
  ELSE <<>>

\* The two field loops over the rows from index k on.
RECURSIVE DrawTextFields(_, _, _, _)
DrawTextFields(impl, rows, k, pageCount) ==
  IF k > Len(rows) THEN <<>>
  ELSE (IF IsSignatureField(rows[k]) THEN <<>>
        ELSE DrawTextField(impl, k, rows[k], pageCount))
         \o DrawTextFields(impl, rows, k + 1, pageCount)

RECURSIVE InsertSignatureFields(_, _, _, _)
InsertSignatureFields(impl, rows, k, pageCount) ==
  IF k > Len(rows) THEN <<>>
  ELSE (IF IsSignatureField(rows[k]) THEN InsertSignatureField(impl, k, rows[k], pageCount)
        ELSE <<>>)
         \o InsertSignatureFields(impl, rows, k + 1, pageCount)

\* certificatePages.forEach((page) => pdfDoc.addPage(page))
AddCertificatePages == [i \in 1..CertificatePages |-> Op("addPage")]

\* Mutant: the rejection stamp is drawn after the fields.
DecorateOpsStampLast(impl, pdf, certificateData) ==
  LET appended == IF hasSignatureField /\ certificateData THEN AddCertificatePages ELSE <<>>
  IN <<Op("normalizeSignatureAppearances"), Op("flattenForm"), Op("flattenAnnotations")>>
       \o DrawTextFields(impl, fields, 1, pdf.pages)
       \o (IF hasSignatureField
           THEN appended \o InsertSignatureFields(impl, fields, 1, pdf.pages + Len(appended))
           ELSE <<>>)
       \o (IF isRejected /\ rejectionReason # ""
           THEN <<[Op("addRejectionStampToPdf") EXCEPT !.reason = rejectionReason]>>
           ELSE <<>>)
       \o <<Op("flattenForm"), Op("save")>>

\* The operations of one decoration of the loaded document, in order.
DecorateOps(impl, pdf, certificateData) ==
  LET appended == IF hasSignatureField /\ certificateData THEN AddCertificatePages ELSE <<>>
  IN <<Op("normalizeSignatureAppearances"), Op("flattenForm"), Op("flattenAnnotations")>>
       \o (IF isRejected /\ rejectionReason # ""
           THEN <<[Op("addRejectionStampToPdf") EXCEPT !.reason = rejectionReason]>>
           ELSE <<>>)
       \o DrawTextFields(impl, fields, 1, pdf.pages)
       \o (IF hasSignatureField
           THEN appended \o InsertSignatureFields(impl, fields, 1, pdf.pages + Len(appended))
           ELSE <<>>)
       \o <<Op("flattenForm"), Op("save")>>

\* The marks an operation sequence leaves on the document.
Marks(ops) ==
  SelectSeq(ops, LAMBDA o : o.op \in {"addRejectionStampToPdf", "drawText", "insertFieldInPDF"})

\* pdfDoc.save(): the loaded document with the pages added and the marks drawn
Saved(pdf, ops) ==
  [pages |-> pdf.pages + Len(SelectSeq(ops, LAMBDA o : o.op = "addPage")),
   content |-> pdf.content \o Marks(ops)]

\* The decoration, then signPdf and putPdfFileServerSide on the saved bytes.
SealOps(impl, pdf, certificateData) ==
  DecorateOps(impl, pdf, certificateData) \o <<Op("signPdf"), Op("putPdfFileServerSide")>>

NoDecoration == [isResealing |-> FALSE, pages |-> 0, ops |-> <<>>]

\* A document before its first seal, and the implementation that seals it.
DrawInputs ==
  {[done |-> FALSE, impl |-> i, data |-> BlankPdf, initialData |-> BlankPdf, seals |-> 0,
    last |-> NoDecoration, previous |-> NoDecoration] : i \in DrawImpls}

\* One seal, reduced to its decoration: the source is loaded, decorated, saved,
\* signed and stored, and the stored bytes become the document's data.
SealRender(isResealing, outcome) ==
  /\ render.seals < MaxSeals
  /\ LET pdfData == WorkingData(isResealing, render.initialData, render.data)
     IN \E ops \in {SealOps(render.impl, pdfData, CertificateData(outcome))} :
          render' = [render EXCEPT !.seals = @ + 1,
                                   !.previous = render.last,
                                   !.last = [isResealing |-> isResealing,
                                              pages |-> pdfData.pages, ops |-> ops],
                                   !.data = Saved(pdfData, ops)]
  /\ UNCHANGED <<recipients, fields, team, persisted, effects, used, job, tasks, pc, loc,
                 tx, err, pre>>

----------------------------------------------------------------------------
(* Specification *)

Run ==
  \/ RunLoadDocument
  \/ RunGetDocumentStatus
  \/ RunGetDocumentDataId
  \/ RunFindDocumentData
  \/ RunCheckFields
  \/ RunAssignQrToken
  \/ RunGetFile
  \/ RunDecorateAndSign
  \/ RunPutPdf
  \/ RunCommitDecorateAndSign
  \/ RunCapture
  \/ RunUpdateDocument
  \/ RunTxDocumentUpdate
  \/ RunTxDocumentDataUpdate
  \/ RunTxAuditLogCreate
  \/ RunCommitUpdateDocument
  \/ RunSendCompletedEmail
  \/ RunCommitSendCompletedEmail
  \/ RunTriggerWebhook

Seal ==
  \/ SealLoadDocument
  \/ SealCheckRecipients
  \/ SealCheckFields
  \/ SealGetFile
  \/ SealDecorateAndSign
  \/ SealPutPdf
  \/ SealCapture
  \/ SealTxDocumentUpdate
  \/ SealTxDocumentDataUpdate
  \/ SealTxAuditLogCreate
  \/ SealSendCompletedEmail
  \/ SealTriggerWebhook

Next ==
  \/ \E impl \in {"run", "sealDocument"}, sendEmail \in BOOLEAN, isResealing \in BOOLEAN :
       Invoke(impl, sendEmail, isResealing)
  \/ Crash
  \/ Retry
  \/ Run
  \/ Seal

Spec == Init /\ [][Next]_vars

\* No seal is in progress: a rendering function is looked at on its own.
NoSealInProgress ==
  /\ document = [status |-> "PENDING", completedAt |-> Never, qrToken |-> NoId,
                 documentDataId |-> DocumentDataId]
  /\ documentData = [exists |-> TRUE, data |-> Pristine, initialData |-> Pristine]
  /\ used = 0
  /\ auditLog = <<>>
  /\ writes = [status |-> 0, data |-> 0]
  /\ blobs = <<>>
  /\ emails = 0
  /\ webhooks = <<>>
  /\ signerCalls = 0
  /\ job = [no |-> 0, impl |-> "none", sendEmail |-> FALSE, isResealing |-> FALSE,
            attempt |-> 0, commits |-> 0]
  /\ tasks = NoTasks
  /\ pc = "idle"
  /\ loc = NoLocals
  /\ tx = ClosedTx
  /\ err = "none"
  /\ pre = Snapshot

NoSeal ==
  /\ recipients = <<>>
  /\ fields = <<>>
  /\ team = "null"
  /\ NoSealInProgress

WrapInit == NoSeal /\ render \in WrapInputs

WrapNext == Wrap

\* breakLongString applied to every text and width within the bounds.
WrapSpec == WrapInit /\ [][WrapNext]_vars

DrawInit ==
  /\ recipients \in {<<>>} \cup {<<[role |-> "SIGNER", signingStatus |-> "REJECTED",
                                     rejectionReason |-> reason]>> : reason \in Reasons}
  /\ \E texts \in SeqsUpTo(TextFieldRows, MaxTextFields),
        signatures \in SeqsUpTo(SignatureFieldRows, MaxSignatureFields) :
       fields = texts \o signatures
  /\ team = "null"
  /\ NoSealInProgress
  /\ render \in DrawInputs

DrawNext ==
  \E isResealing \in BOOLEAN, outcome \in CertificateOutcomes :
    SealRender(isResealing, outcome)

\* The decoration of every document within the bounds, sealed up to MaxSeals times.
DrawSpec == DrawInit /\ [][DrawNext]_vars

----------------------------------------------------------------------------
(* Properties *)

\* Stated on the rows themselves, independently of the helpers of the code.
SomeRejected(S) == \E i \in S : recipients[i].signingStatus = "REJECTED"

Signers == {i \in DOMAIN recipients : recipients[i].role # "CC"}

CarbonCopies == {i \in DOMAIN recipients : recipients[i].role = "CC"}

AllSigned(S) == \A i \in S : recipients[i].signingStatus = "SIGNED"

\* The first rejected recipient that is not CC, in the order the rows are returned.
FirstRejectedSigner(i) ==
  /\ i \in Signers
  /\ recipients[i].signingStatus = "REJECTED"
  /\ ~SomeRejected({j \in Signers : j < i})

PreconditionErrors ==
  {"Document is not complete", "has unsigned recipients", "has unsigned required fields",
   "has no document data"}

\* Positions of an execution up to and including the required-field check.
UpToFieldCheck ==
  {"idle", "load", "get-document-status", "get-document-data-id", "find-document-data",
   "check-recipients", "check-fields", "failed"}

\* C1: the status/completedAt update, the DocumentData update and the audit log
\* entry are applied all three or none, in every reachable state: there are as many
\* committed status writes and data writes as audit entries, and the rows carry
\* the values of the transaction that wrote the last audit entry, or their initial
\* values when there is none.
C1_TransactionIsAtomic ==
  /\ writes.status = Len(auditLog)
  /\ writes.data = Len(auditLog)
  /\ IF auditLog = <<>>
     THEN /\ document.status = "PENDING"
          /\ document.completedAt = Never
          /\ documentData.data = documentData.initialData
     ELSE LET last == auditLog[Len(auditLog)]
          IN /\ document.status = (IF last.isRejected THEN "REJECTED" ELSE "COMPLETED")
             /\ document.completedAt = last.transactionId
             /\ documentData.data \in Range(blobs)
             /\ documentData.data.sig > 0

\* C1 witness: a seal failed inside its transaction, after the signed bytes were stored.
C1_FailedInsideTransaction ==
  pc = "failed" /\ err = "transaction failed" /\ blobs # <<>>

\* C2 (as the spec states it): `run` raises "Document is not complete" if and only if
\* no recipient is REJECTED and some non-CC recipient has not SIGNED; CC recipients
\* are left out of the check.
C2_RunCompletionIgnoresCC ==
  job.impl = "run" =>
    LET incomplete == ~SomeRejected(DOMAIN recipients) /\ ~AllSigned(Signers)
    IN /\ (pc = "failed" /\ err = "Document is not complete") => incomplete
       /\ (pc \notin {"idle", "load", "failed"}) => ~incomplete

\* C3 (as the spec states it): the completion check of `sealDocument` passes exactly
\* when some recipient is REJECTED or every non-CC recipient has SIGNED, and throws
\* "has unsigned recipients" otherwise.
C3_SealPassesOnAnyRejection ==
  job.impl = "sealDocument" =>
    LET passes == SomeRejected(DOMAIN recipients) \/ AllSigned(Signers)
    IN /\ (pc = "failed" /\ err = "has unsigned recipients") => ~passes
       /\ (pc \notin {"idle", "load", "check-recipients", "failed"}) => passes

\* C3 (amended): the completion check of `sealDocument` passes exactly when some
\* non-CC recipient is REJECTED or every non-CC recipient has SIGNED, and throws
\* "has unsigned recipients" otherwise; the status of a CC recipient never matters.
C3_SealPassesOnSignerRejection ==
  job.impl = "sealDocument" =>
    LET passes == SomeRejected(Signers) \/ AllSigned(Signers)
    IN /\ (pc = "failed" /\ err = "has unsigned recipients") => ~passes
       /\ (pc \notin {"idle", "load", "check-recipients", "failed"}) => passes

\* C3 witness: `sealDocument` passed the check with a CC recipient that has not signed.
C3_SealPassedWithUnsignedCC ==
  /\ Running("sealDocument", "check-fields")
  /\ ~AllSigned(CarbonCopies)
  /\ Signers # {}

\* C4: a committed status is REJECTED if and only if some non-CC recipient is
\* REJECTED, however many others have signed, and COMPLETED otherwise; the same
\* holds for the status a transaction has staged.
C4_StatusFollowsSignerRejection ==
  LET expected == IF SomeRejected(Signers) THEN "REJECTED" ELSE "COMPLETED"
  IN /\ writes.status > 0 => document.status = expected
     /\ (tx.open /\ tx.writes.status > writes.status) => tx.document.status = expected

\* C4 witness: a seal wrote REJECTED although another non-CC recipient has signed.
C4_RejectedAmongSigned ==
  /\ pc = "done"
  /\ document.status = "REJECTED"
  /\ \E i \in Signers : recipients[i].signingStatus = "SIGNED"

\* C5: the reason stamped on the PDF and recorded in the audit entry is that of the
\* first REJECTED non-CC recipient, the empty string when it has none recorded, in
\* which case nothing is stamped and the seal still ends with status REJECTED.
C5_ReasonOfFirstRejectedSigner ==
  \A i \in DOMAIN recipients :
    FirstRejectedSigner(i) =>
      LET recorded == recipients[i].rejectionReason
          reason == IF recorded = "null" THEN "" ELSE recorded
      IN /\ \A k \in DOMAIN auditLog :
              auditLog[k].isRejected /\ auditLog[k].rejectionReason = reason
         /\ \A k \in DOMAIN blobs : blobs[k].stamp = reason
         /\ pc = "done" => document.status = "REJECTED"
         /\ pc = "failed" => err \notin {"has unsigned recipients",
                                         "has unsigned required fields"}

\* C5 witness: the first rejected recipient has no recorded reason, a later one
\* has one, and the seal has succeeded.
C5_SealedWithoutRecordedReason ==
  /\ pc = "done"
  /\ \E i, j \in Signers :
       /\ FirstRejectedSigner(i)
       /\ recipients[i].rejectionReason = "null"
       /\ i < j
       /\ recipients[j].rejectionReason = "late"

\* C6: when no non-CC recipient rejected and a required field is not inserted, no
\* execution gets past the required-field check: the PDF is never loaded, rendered,
\* signed or stored, and the execution fails; when a non-CC recipient rejected,
\* the check is skipped and never fails the seal.
C6_RequiredFieldsChecked ==
  /\ (~SomeRejected(Signers) /\ fieldsContainUnsignedRequiredField(fields)) =>
       /\ pc \in UpToFieldCheck
       /\ signerCalls = 0
       /\ blobs = <<>>
       /\ auditLog = <<>>
       /\ pc = "failed" => err \in PreconditionErrors \cup {"crash"}
  /\ (pc = "failed" /\ err = "has unsigned required fields") =>
       (~SomeRejected(Signers) /\ fieldsContainUnsignedRequiredField(fields))

\* C6 witness: a rejected document with a required field not inserted was sealed.
C6_RejectedSealedWithUninsertedField ==
  /\ pc = "done"
  /\ SomeRejected(Signers)
  /\ fieldsContainUnsignedRequiredField(fields)

\* C7: an execution that fails on a precondition has written nothing (status,
\* completedAt, QR token, DocumentData row, stored blobs, audit log) and has sent
\* no email, dispatched no webhook and called no signer.
C7_PreconditionFailureWritesNothing ==
  (pc = "failed" /\ err \in PreconditionErrors) =>
    /\ document = pre.document
    /\ documentData = pre.documentData
    /\ auditLog = pre.auditLog
    /\ writes = pre.writes
    /\ blobs = pre.blobs
    /\ emails = pre.emails
    /\ webhooks = pre.webhooks
    /\ signerCalls = pre.signerCalls

\* C7 witness: `run` failed a precondition on a document that has no QR token yet.
C7_RunFailedPrecondition ==
  /\ job.impl = "run"
  /\ pc = "failed"
  /\ err \in PreconditionErrors
  /\ pre.document.qrToken = NoId

\* C8: an execution that fails before its transaction has committed (the signer
\* failed, or it failed after the blob was stored, or inside the transaction)
\* leaves status, completedAt, the DocumentData row and the audit log as they
\* were when the seal was invoked.
C8_FailureBeforeCommitChangesNoRow ==
  (pc = "failed" /\ job.commits = 0) =>
    /\ document.status = pre.document.status
    /\ document.completedAt = pre.document.completedAt
    /\ documentData = pre.documentData
    /\ auditLog = pre.auditLog

\* C8 witness: a seal failed after its signed bytes were stored and before a commit.
C8_FailedAfterBlobStored ==
  /\ pc = "failed"
  /\ job.commits = 0
  /\ Len(blobs) > Len(pre.blobs)

\* C9 (as the spec states it): a job that succeeds, after whatever crashes and
\* re-executions, has written the document's status once and created exactly one
\* DOCUMENT_COMPLETED audit entry.
C9_OneJobOneStatusWrite ==
  (job.impl = "run" /\ pc = "done") =>
    /\ writes.status = pre.writes.status + 1
    /\ Len(auditLog) = Len(pre.auditLog) + 1

\* Where an execution is when it runs the body of a step, or passes its result.
C10_Position ==
  job.impl = "run" =>
    /\ pc \in {"put-pdf", "commit-decorate-and-sign-pdf"} =>
         ~Cached("decorate-and-sign-pdf")
    /\ pc \in {"tx-document-update", "tx-document-data-update", "tx-audit-log-create",
               "commit-update-document"} => ~Cached("update-document")
    /\ pc = "commit-send-completed-email" => ~Cached("send-completed-email")
    /\ pc \in {"find-document-data", "check-fields"} =>
         loc.documentDataId = CachedResult("get-document-data-id")
    /\ pc \in {"capture", "update-document"} =>
         /\ Cached("decorate-and-sign-pdf")
         /\ loc.newDataId = CachedResult("decorate-and-sign-pdf")
    /\ tx.open =>
         /\ Cached("decorate-and-sign-pdf")
         /\ loc.newData = BlobData(CachedResult("decorate-and-sign-pdf"))

\* What a step does once the result of a named step is committed.
C10_Step ==
  job.impl = "run" =>
    /\ Cached("decorate-and-sign-pdf") => signerCalls' = signerCalls /\ blobs' = blobs
    /\ Cached("update-document") => document' = document /\ documentData' = documentData
                                    /\ auditLog' = auditLog
    /\ Cached("send-completed-email") => emails' = emails

\* C10: a re-execution runs the body of no step whose result is committed (no
\* signer call, stored blob, database write or email of that step happens again),
\* uses the committed result of every step it has passed, and the transaction of
\* update-document writes the bytes of the blob whose id decorate-and-sign-pdf
\* committed.
C10_CommittedStepsAreSkipped == [](C10_Position) /\ [][C10_Step]_vars

\* C10 witness: a re-execution that skipped decorate-and-sign-pdf is in the
\* transaction of update-document.
C10_ResumedAtUpdateDocument ==
  /\ job.impl = "run"
  /\ job.attempt > 1
  /\ tx.open
  /\ signerCalls = pre.signerCalls + 1

\* C11: a reseal loads and renders onto the DocumentData's initialData, never
\* onto its current data, also when the document was sealed before: the bytes it
\* loads are initialData, and the bytes it signs and stores are initialData with
\* one layer of overlays.
C11_ResealRendersOntoInitialData ==
  job.isResealing =>
    /\ pc \in {"qr-token", "get-file", "decorate-and-sign-pdf"} =>
         loc.data = documentData.initialData
    /\ pc = "put-pdf" =>
         loc.pdfBuffer.layers = documentData.initialData.layers + 1

\* C11 witness: a reseal of a document that was sealed before has rendered.
C11_ResealOfSealedDocument ==
  /\ job.isResealing
  /\ pc = "put-pdf"
  /\ documentData.data # documentData.initialData

\* The errors an execution can end with.
Errors ==
  PreconditionErrors \cup {"crash", "signPdf failed", "transaction failed",
                           "sendCompletedEmail failed", "postHog.capture failed"}

\* C13: when the certificate renderer throws, the seal does not fail: no
\* execution ends with the renderer's error, the decorated document has no
\* certificate pages appended, and the execution goes on to sign, persist and
\* dispatch the webhook (the witness).
C13_CertificateFailureIsSwallowed ==
  /\ pc = "failed" => err \in Errors
  /\ (loc.certificate = "threw" /\ pc = "put-pdf") => loc.pdfBuffer.cert = loc.data.cert
  /\ loc.certificate = "threw" => pc \notin {"idle", "load", "failed"}

\* C13 witness: the renderer threw and the seal signed, persisted and notified.
C13_SealedWithoutCertificate ==
  /\ pc = "done"
  /\ loc.certificate = "threw"
  /\ signerCalls > pre.signerCalls
  /\ Len(auditLog) > Len(pre.auditLog)
  /\ document.status \in {"COMPLETED", "REJECTED"}
  /\ Len(webhooks) > Len(pre.webhooks)

\* C14: the renderer is called exactly when the document has a SIGNATURE or
\* FREE_SIGNATURE field, inserted or not, and the team setting is true or absent;
\* all pages of the certificate are appended exactly when, moreover, the renderer
\* returned a PDF, and none otherwise.
C14_CertificateAppended ==
  pc \in {"decorate-and-sign-pdf", "put-pdf"} =>
    LET wanted == /\ \E i \in DOMAIN fields :
                       fields[i].type \in {"SIGNATURE", "FREE_SIGNATURE"}
                  /\ team \in {"true", "null"}
    IN /\ loc.certificate # "not called" <=> wanted
       /\ pc = "put-pdf" =>
            loc.pdfBuffer.cert - loc.data.cert =
              (IF wanted /\ loc.certificate = "pdf" THEN CertificatePages ELSE 0)

\* C14 witness: a certificate was appended for a document whose only signature
\* field is a FREE_SIGNATURE field that is not inserted, with no team setting.
C14_CertificateForUninsertedSignature ==
  /\ pc = "put-pdf"
  /\ loc.pdfBuffer.cert > loc.data.cert
  /\ team = "null"
  /\ \A i \in DOMAIN fields : fields[i].type # "SIGNATURE" /\ ~fields[i].inserted

\* C15 (as the spec states it): a seal that is not a reseal sends the completion
\* email if and only if sendEmail is true and the document is not rejected.
C15_EmailUnlessRejected ==
  (~job.isResealing /\ pc = "done") =>
    (emails > pre.emails <=> (job.sendEmail /\ ~SomeRejected(Signers)))

\* C16 (as the spec states it): a reseal that succeeds, re-executed or not, has
\* sent the completion email if and only if sendEmail is true and the document
\* was not completed when the reseal started.
C16_ResealEmailDecidedOnStatusBefore ==
  (job.impl = "run" /\ job.isResealing /\ pc = "done") =>
    (emails > pre.emails <=>
       (job.sendEmail /\ pre.document.status \notin {"COMPLETED", "REJECTED"}))

\* C17 (as the spec states it): a webhook is dispatched only after the
\* transaction has committed, its event and payload status match the persisted
\* status, and a seal that has committed and then ends, also by a failure of the
\* completion email, has dispatched one.
C17_WebhookAfterPersistence ==
  /\ Len(webhooks) > Len(pre.webhooks) => job.commits > 0 \/ Cached("update-document")
  /\ \A k \in DOMAIN webhooks :
       /\ webhooks[k].status \in {"COMPLETED", "REJECTED"}
       /\ webhooks[k].event = "DOCUMENT_REJECTED" <=> webhooks[k].status = "REJECTED"
       /\ webhooks[k].event = "DOCUMENT_COMPLETED" <=> webhooks[k].status = "COMPLETED"
  /\ (job.impl = "sealDocument" /\ job.commits > 0
        /\ (pc = "done" \/ (pc = "failed" /\ err = "sendCompletedEmail failed"))) =>
       /\ Len(webhooks) = Len(pre.webhooks) + 1
       /\ webhooks[Len(webhooks)].status = document.status

\* The lines the caller draws: wrappedText.split('\n').
WrappedLines == Split(render.wrappedText, "\n")

\* C18 (as the spec states it, for the widths that are not negative): no returned
\* line is wider than the width, unless the text is a single character wider than
\* the width.
C18_NoLineTooWide ==
  (render.done /\ render.maxWidth >= 0) =>
    \/ Len(render.text) = 1 /\ WidthOfText(render.text) > render.maxWidth
    \/ \A k \in DOMAIN WrappedLines : WidthOfText(WrappedLines[k]) <= render.maxWidth

\* C18 (amended): no returned line of two or more characters is wider than the
\* width: a line wider than the width is a single character, itself wider than
\* the width, or the empty line when the width is negative.
C18_NoBreakableLineTooWide ==
  render.done =>
    \A k \in DOMAIN WrappedLines :
      \/ WidthOfText(WrappedLines[k]) <= render.maxWidth
      \/ Len(WrappedLines[k]) = 1
      \/ WrappedLines[k] = <<>> /\ render.maxWidth < 0

\* C18 witness: a text of several characters was wrapped and one of its lines is a
\* single character wider than the width.
C18_WideCharacterAlone ==
  /\ render.done
  /\ Len(render.text) > 1
  /\ render.maxWidth >= 0
  /\ \E k \in DOMAIN WrappedLines :
       Len(WrappedLines[k]) = 1 /\ WidthOfText(WrappedLines[k]) > render.maxWidth

\* The lines of the paragraphs, each wrapped on its own, one after the other.
RECURSIVE LinesOfParagraphs(_, _)
LinesOfParagraphs(paragraphs, maxWidth) ==
  IF paragraphs = <<>> THEN <<>>
  ELSE Split(breakLongString(Head(paragraphs), maxWidth), "\n")
         \o LinesOfParagraphs(Tail(paragraphs), maxWidth)

\* C19 (as the spec states it, for the widths that are not negative): the returned
\* lines are the lines of the input's paragraphs in input order, every paragraph
\* contributing at least one line and an empty paragraph exactly one empty line;
\* no paragraph is dropped.
C19_ParagraphsPreserved ==
  (render.done /\ render.maxWidth >= 0) =>
    /\ Len(WrappedLines) >= Len(Split(render.text, "\n"))
    /\ WrappedLines = LinesOfParagraphs(Split(render.text, "\n"), render.maxWidth)

\* The overlay draw operations of a decoration: the stamp, the text draws with their
\* lines and positions, and the signature fields handed to an insertion strategy.
OverlayOf(ops) == [k \in DOMAIN Marks(ops) |-> [Marks(ops)[k] EXCEPT !.pages = 0]]

\* C12: two reseals of the same document in sequence, with the same fields and
\* recipients, issue the same sequence of overlay draw operations: the same stamp,
\* the same wrapped lines at the same positions on the same pages, the same
\* signature fields inserted.
C12_ResealIsIdempotent ==
  (render.seals >= 2 /\ render.last.isResealing /\ render.previous.isResealing) =>
    OverlayOf(render.last.ops) = OverlayOf(render.previous.ops)

\* C12 witness: a document was resealed twice, the second time after certificate
\* pages had been appended to its data, and each reseal stamped it and drew a
\* wrapped text.
C12_ResealedTwiceWithOverlay ==
  /\ render.seals >= 2
  /\ render.last.isResealing
  /\ render.previous.isResealing
  /\ \E o \in Range(render.previous.ops) : o.op = "addPage"
  /\ \E o \in Range(render.last.ops) : o.op = "addRejectionStampToPdf"
  /\ \E o \in Range(render.last.ops) : o.op = "drawText"

\* C20 (as the spec states it): whichever implementation decorates, a text is drawn
\* only for a field that is inserted and has a custom text, and a signature field is
\* handed to an insertion strategy only if it is inserted.
C20_OnlyInsertedFieldsRendered ==
  \A o \in Range(render.last.ops) :
    /\ o.op = "drawText" => fields[o.field].inserted /\ fields[o.field].customText # <<>>
    /\ o.op = "insertFieldInPDF" => fields[o.field].inserted

\* The text draw operations the last decoration issued for the field at index k.
TextDrawsOf(k) == SelectSeq(render.last.ops, LAMBDA o : o.op = "drawText" /\ o.field = k)

\* C21 (as the spec states it): a non-signature field whose page is outside
\* 1..pageCount of the loaded document has nothing drawn for it on any page, and a
\* field whose page is in range is drawn on that page and on no other.
C21_PageOutOfRangeSkipped ==
  \A k \in DOMAIN fields :
    /\ fields[k].page \notin 1..render.last.pages => TextDrawsOf(k) = <<>>
    /\ \A o \in Range(TextDrawsOf(k)) : o.page = fields[k].page

\* What the spec states of the field at index k, in tenths of a point: the height
\* h, invertedY, the baseline of the j-th line, the x of every line, the wrapped
\* lines, and how many of them have a baseline not below invertedY + 4.
StatedHeight(k) == (PageHeight * fields[k].height) \div 100
StatedInvertedY(k) ==
  PageHeight - ((PageHeight * fields[k].positionY) \div 100) - StatedHeight(k)
StatedBaseline(k, j) == (10 * (StatedInvertedY(k) + StatedHeight(k) - 4 - 8)) - (96 * (j - 1))
StatedX(k) == 10 * (((PageWidth * fields[k].positionX) \div 100) + 4)
StatedLines(k) ==
  Split(breakLongString(fields[k].customText, ((PageWidth * fields[k].width) \div 100) - 8),
        "\n")
StatedCount(k) ==
  Cardinality({j \in DOMAIN StatedLines(k) : StatedBaseline(k, j) >= 10 * (StatedInvertedY(k) + 4)})

\* A non-signature field that every implementation renders.
Rendered(k) ==
  /\ ~IsSignatureField(fields[k])
  /\ fields[k].inserted
  /\ fields[k].customText # <<>>
  /\ fields[k].page \in 1..render.last.pages

\* C22: in `run` and in `sealDocument`, the text draws of a rendered non-signature
\* field are the longest prefix of its wrapped lines whose baseline is not below
\* invertedY + 4: the first at invertedY + h - 4 - 8, each following one 8 * 1.2
\* lower, all at x = pageWidth * positionX / 100 + 4; the other lines are dropped.
C22_LinesDrawnTopDown ==
  (render.seals >= 1 /\ render.impl \in {"run", "sealDocument"}) =>
    \A k \in DOMAIN fields :
      (Rendered(k) \/ TextDrawsOf(k) # <<>>) =>
        /\ Len(TextDrawsOf(k)) = StatedCount(k)
        /\ \A j \in DOMAIN TextDrawsOf(k) :
             /\ TextDrawsOf(k)[j].text = StatedLines(k)[j]
             /\ TextDrawsOf(k)[j].x = StatedX(k)
             /\ TextDrawsOf(k)[j].y = StatedBaseline(k, j)

\* C22 witness: `run` drew the first line of a rendered field and dropped the rest.
C22_OverflowTruncated ==
  /\ render.seals >= 1
  /\ render.impl = "run"
  /\ \E k \in DOMAIN fields :
       /\ Rendered(k)
       /\ Len(TextDrawsOf(k)) = 1
       /\ Len(StatedLines(k)) > 1

\* C23 (as the spec states it): after a successful seal, by `run` or by
\* `sealDocument`, the document has a QR token, and a QR token the document has is
\* never overwritten by any seal or re-execution.
C23_QrTokenAssignedOnce ==
  /\ [](pc = "done" => document.qrToken # NoId)
  /\ [][document.qrToken # NoId => document'.qrToken = document.qrToken]_vars

\* C24 (as the spec states it): a status COMPLETED that `run` stages in its
\* transaction or has committed goes with every non-CC recipient having SIGNED,
\* whatever the roles and statuses of the recipients.
C24_RunCompletesOnlyWhenAllSigned ==
  job.impl = "run" =>
    /\ (tx.open /\ tx.writes.status > writes.status /\ tx.document.status = "COMPLETED")
         => AllSigned(Signers)
    /\ (writes.status > pre.writes.status /\ document.status = "COMPLETED")
         => AllSigned(Signers)

\* C25 (as the spec states it): when signPdf fails in the first execution of a
\* seal, the failure reaches the caller and nothing is left behind: the document
\* row (status, completedAt, QR token), the DocumentData row and the audit log are
\* as they were before the call, and no blob was stored.
C25_SignerFailureLeavesNothing ==
  (pc = "failed" /\ err = "signPdf failed" /\ job.attempt = 1) =>
    /\ document = pre.document
    /\ documentData = pre.documentData
    /\ auditLog = pre.auditLog
    /\ blobs = pre.blobs

\* C26 (as the spec states it): a seal job dispatches at most one webhook, whatever
\* crashes and re-executions it goes through, and exactly one once it has succeeded.
C26_OneWebhookPerJob ==
  job.impl = "run" =>
    /\ Len(webhooks) <= Len(pre.webhooks) + 1
    /\ pc = "done" => Len(webhooks) = Len(pre.webhooks) + 1

\* C27 (as the spec states it): certificate pages are appended only after every
\* field has been drawn, so a signature field is handed to its insertion strategy
\* while the document has the pages it was loaded with and no certificate page.
C27_CertificateAfterFields ==
  /\ \A i, j \in DOMAIN render.last.ops :
       (/\ render.last.ops[i].op = "addPage"
        /\ render.last.ops[j].op \in {"drawText", "insertFieldInPDF"}) => j < i
  /\ \A o \in Range(render.last.ops) :
       o.op = "insertFieldInPDF" => o.pages = render.last.pages

\* The operations between the initial passes (and the stamp, if any) and the
\* second flatten: the field drawing.
FieldOps == {"drawText", "addPage", "insertFieldInPDF"}

\* C28: the operations of a seal are, in this order: normalize signature
\* appearances, flatten form, flatten annotations, the rejection stamp (if and only
\* if the document is rejected and the reason is not empty), the field drawing, a
\* second form flatten, serialization, signing, blob storage; so the stamp comes
\* after the initial passes and before every field.
C28_RenderingOrder ==
  render.seals >= 1 =>
    LET ops == render.last.ops
        n == Len(ops)
        stamped == isRejected /\ rejectionReason # ""
        first == IF stamped THEN 5 ELSE 4
    IN /\ n >= first + 3
       /\ ops[1].op = "normalizeSignatureAppearances"
       /\ ops[2].op = "flattenForm"
       /\ ops[3].op = "flattenAnnotations"
       /\ stamped => ops[4].op = "addRejectionStampToPdf" /\ ops[4].reason = rejectionReason
       /\ \A i \in first..(n - 4) : ops[i].op \in FieldOps
       /\ ops[n - 3].op = "flattenForm"
       /\ ops[n - 2].op = "save"
       /\ ops[n - 1].op = "signPdf"
       /\ ops[n].op = "putPdfFileServerSide"

\* C28 witness: a rejected document was stamped, a text was drawn on it and a
\* signature field was inserted.
C28_StampedThenDrawn ==
  /\ render.seals >= 1
  /\ \E o \in Range(render.last.ops) : o.op = "addRejectionStampToPdf"
  /\ \E o \in Range(render.last.ops) : o.op = "drawText"
  /\ \E o \in Range(render.last.ops) : o.op = "insertFieldInPDF"

\* C29 (as the spec states it): for an inserted non-signature field, the job handler
\* of seal-document.handler.ts issues the text draw operations that `sealDocument`
\* issues for it: the custom text wrapped to fieldWidth - 2 * 4, its lines drawn
\* top-down with padding 4.
C29_HandlerWrapsLikeSealDocument ==
  (render.seals >= 1 /\ render.impl = "handler") =>
    \A k \in DOMAIN fields :
      (~IsSignatureField(fields[k]) /\ fields[k].inserted) =>
        TextDrawsOf(k) = DrawTextField("sealDocument", k, fields[k], render.last.pages)

\* The characters of a text that are not spaces, and the texts of a sequence of
\* lines or words one after the other.
NonSpace(text) == SelectSeq(text, LAMBDA c : c # " ")

RECURSIVE Concat(_)
Concat(texts) == IF texts = <<>> THEN <<>> ELSE Head(texts) \o Concat(Tail(texts))

\* The output lines of one paragraph of the wrapped text.
ParagraphLines(paragraph) == BreakParagraph(<<>>, paragraph, render.maxWidth)

\* The word i of a paragraph stands whole as the token t of its output line k: the
\* token is the word, and as many characters that are not spaces come before the
\* token in the output as come before the word in the paragraph.
WholeWordAt(paragraph, i, k, t) ==
  LET words == Split(paragraph, " ")
      lines == ParagraphLines(paragraph)
      tokens == Split(lines[k], " ")
  IN /\ words[i] # <<>>
     /\ tokens[t] = words[i]
     /\ Len(NonSpace(Concat(SubSeq(lines, 1, k - 1)))) + Len(Concat(SubSeq(tokens, 1, t - 1)))
          = Len(Concat(SubSeq(words, 1, i - 1)))

\* The paragraphs of the wrapped text that are wider than the width.
WideParagraphs ==
  {paragraph \in Range(Split(render.text, "\n")) : WidthOfText(paragraph) > render.maxWidth}

\* C30: greedy word wrapping.  The wrapped text is the output lines of its
\* paragraphs; within a paragraph wider than maxWidth, a line that starts with a
\* whole word w follows a line L1 only if L1 + ' ' + w is wider than maxWidth; a
\* word that fits a line alone is never split; and when every word fits alone, each
\* line is consecutive words joined by single spaces.
C30_GreedyWordWrapping ==
  render.done =>
    /\ render.text # <<>> =>
         render.wrappedText
           = Join(Concat([n \in DOMAIN Split(render.text, "\n") |->
                           ParagraphLines(Split(render.text, "\n")[n])]), "\n")
    /\ \A paragraph \in WideParagraphs :
         LET words == Split(paragraph, " ")
             lines == ParagraphLines(paragraph)
         IN /\ \A k \in 2..Len(lines) :
                 \A i \in DOMAIN words :
                   WholeWordAt(paragraph, i, k, 1) =>
                     WidthOfText(lines[k - 1] \o <<" ">> \o words[i]) > render.maxWidth
            /\ \A i \in DOMAIN words :
                 (words[i] # <<>> /\ WidthOfText(words[i]) <= render.maxWidth) =>
                   \E k \in DOMAIN lines :
                     \E t \in DOMAIN Split(lines[k], " ") : WholeWordAt(paragraph, i, k, t)
            /\ (\A i \in DOMAIN words : WidthOfText(words[i]) <= render.maxWidth) =>
                 \A k \in DOMAIN lines :
                   \E i \in DOMAIN words :
                     \E j \in i..Len(words) : lines[k] = Join(SubSeq(words, i, j), " ")

\* C30 witness: a paragraph was wrapped and a line that ends with a whole word is
\* followed by a line that starts with a whole word.
C30_FlushedBeforeWord ==
  /\ render.done
  /\ \E paragraph \in WideParagraphs :
       \E k \in 2..Len(ParagraphLines(paragraph)) :
         \E i \in 2..Len(Split(paragraph, " ")) :
           /\ WholeWordAt(paragraph, i, k, 1)
           /\ WholeWordAt(paragraph, i - 1, k - 1,
                          Len(Split(ParagraphLines(paragraph)[k - 1], " ")))

\* The character runs of a word: those the character loop flushes as lines, and the
\* last one, which it leaves as the current line.
RunsOf(word) == BreakWord(word, [lines |-> <<>>, charLine |-> <<>>], render.maxWidth)

\* The words wider than the width, as <<paragraph, index of the word>>.
WideWords ==
  {pw \in WideParagraphs \X (1..MaxLen) :
     /\ pw[2] \in DOMAIN Split(pw[1], " ")
     /\ WidthOfText(Split(pw[1], " ")[pw[2]]) > render.maxWidth}

\* The runs of a wide word partition it, and appending the word's next character
\* to a flushed run would exceed the width.
RunsAreMaximal(word) ==
  LET runs == RunsOf(word)
  IN /\ Concat(runs.lines) \o runs.charLine = word
     /\ \A j \in DOMAIN runs.lines :
          LET next == word[Len(Concat(SubSeq(runs.lines, 1, j))) + 1]
          IN WidthOfText(Append(runs.lines[j], next)) > render.maxWidth

\* The flushed runs of the word i of a paragraph are consecutive output lines, and
\* the line after them starts with the last run, followed by the next word if that
\* fits.
RunsAreLines(paragraph, i) ==
  LET words == Split(paragraph, " ")
      runs == RunsOf(words[i])
      lines == ParagraphLines(paragraph)
      current == IF i < Len(words)
                    /\ WidthOfText(runs.charLine \o <<" ">> \o words[i + 1]) <= render.maxWidth
                 THEN runs.charLine \o <<" ">> \o words[i + 1]
                 ELSE runs.charLine
  IN \E o \in 0..Len(lines) :
       /\ o + Len(runs.lines) <= Len(lines)
       /\ \A j \in DOMAIN runs.lines : lines[o + j] = runs.lines[j]
       /\ current # <<>> =>
            /\ o + Len(runs.lines) + 1 <= Len(lines)
            /\ Len(lines[o + Len(runs.lines) + 1]) >= Len(current)
            /\ SubSeq(lines[o + Len(runs.lines) + 1], 1, Len(current)) = current

\* Every run of the word, the last one included.
AllRuns(word) == Append(RunsOf(word).lines, RunsOf(word).charLine)

EmptyCount(texts) == Cardinality({k \in DOMAIN texts : texts[k] = <<>>})

\* C32 (as the spec states it, for the widths that are not negative): the returned
\* text has as many empty lines as the input has empty paragraphs.
C32_EmptyLinesAreEmptyParagraphs ==
  (render.done /\ render.maxWidth >= 0) =>
    EmptyCount(WrappedLines) = EmptyCount(Split(render.text, "\n"))

\* The visible characters of a text: those that are neither spaces nor newlines.
Visible(text) == SelectSeq(text, LAMBDA c : c \notin {" ", "\n"})

\* C33: for every text and every maxWidth, the visible characters of the returned
\* text are the visible characters of the input, in the same order: none is
\* dropped, duplicated or moved.
C33_VisibleCharactersPreserved ==
  render.done => Visible(render.wrappedText) = Visible(render.text)

\* C33 witness: a text was wrapped, a word of it was broken between two characters
\* and a space of it was dropped.
C33_BrokenAndSpaceDropped ==
  /\ render.done
  /\ \E pw \in WideWords : RunsOf(Split(pw[1], " ")[pw[2]]).lines # <<>>
  /\ Len(SelectSeq(render.wrappedText, LAMBDA c : c = " "))
       < Len(SelectSeq(render.text, LAMBDA c : c = " "))
  /\ Len(Visible(render.text)) >= 3

\* C34 (as the spec states it): a failure of the analytics capture is ignored: a
\* seal whose postHog.capture threw has still run its persistence transaction, so
\* it has not ended by that failure and the document has its new status, its new
\* data and one more audit entry.
C34_AnalyticsFailureIgnored ==
  (err = "postHog.capture failed") =>
    /\ pc # "failed"
    /\ writes.status > pre.writes.status
    /\ writes.data > pre.writes.data
    /\ Len(auditLog) = Len(pre.auditLog) + 1

\* The marks of a sequence that are the overlay of the field at index k.
OverlayMarksOf(k, marks) ==
  SelectSeq(marks, LAMBDA o : o.op \in {"drawText", "insertFieldInPDF"} /\ o.field = k)

\* C35 (as the spec states it): no seal, reseal or not, decorates bytes that an
\* earlier seal of the same document produced: after any sequence of seals the
\* stored data carries the overlay of each field at most once, that is, as the
\* last decoration drew it on the pages the document was created with.
C35_OverlayPresentOnce ==
  render.seals >= 1 =>
    /\ render.last.pages = render.initialData.pages
    /\ \A k \in DOMAIN fields :
         OverlayMarksOf(k, render.data.content) = OverlayMarksOf(k, render.last.ops)

\* s is t, or t with rows appended.
IsPrefix(t, s) == Len(t) <= Len(s) /\ SubSeq(s, 1, Len(t)) = t

\* C36: no step of a seal, in `run` or in `sealDocument`, successful or not,
\* changes a recipient row, a field row, the team setting, the initialData of the
\* document's DocumentData row, the existence of that row or the document's
\* documentDataId; the audit log and the stored blobs only grow, by appending.
\* What a seal may change is the document's status, completedAt and qrToken and
\* the data of the existing DocumentData row.
C36_SealFrame ==
  [][/\ recipients' = recipients
     /\ fields' = fields
     /\ team' = team
     /\ documentData'.initialData = documentData.initialData
     /\ documentData'.exists = documentData.exists
     /\ document'.documentDataId = document.documentDataId
     /\ IsPrefix(auditLog, auditLog')
     /\ IsPrefix(blobs, blobs')]_vars

\* C36 witness: a seal of a document with a recipient and a field has succeeded;
\* it changed the status, the completion time and the data, added one audit entry
\* and stored a blob, and the initialData is not the data any more.
C36_SealedWithRowsKept ==
  /\ pc = "done"
  /\ recipients # <<>>
  /\ fields # <<>>
  /\ document.status # pre.document.status
  /\ document.completedAt # pre.document.completedAt
  /\ documentData.data # pre.documentData.data
  /\ documentData.initialData # documentData.data
  /\ document.documentDataId = DocumentDataId
  /\ Len(auditLog) = Len(pre.auditLog) + 1
  /\ Len(blobs) > Len(pre.blobs)

\* C37 (as the spec states it): no completion email is ever sent by a seal whose
\* outcome is REJECTED, that is, of a document a non-CC recipient rejected,
\* whatever sendEmail and isResealing are and whatever the status of the document
\* before the seal, in `run` and in `sealDocument` alike.
C37_NoEmailWhenRejected ==
  [][emails' > emails => ~SomeRejected(Signers)]_vars

====
